---- MODULE Spec2Model ----
(***************************************************************************)
(* meshman: the binary STL decoder (src/src/mesh/lib.rs) and the command   *)
(* driver (src/src/main.rs).                                               *)
(*                                                                         *)
(* Three specifications share the variables below:                         *)
(*   SpecMap     a VertexMap driven by an arbitrary sequence of add calls  *)
(*   SpecDecode  Mesh::read over an arbitrary byte stream                  *)
(*   SpecMain    main: command parsing, the engine loop and the writers    *)
(***************************************************************************)
EXTENDS Integers, Sequences, FiniteSets, TLC

VARIABLES
    vm,            \* VertexMap.vertices: the HashMap's entries [k, i]
    log,           \* the add calls made so far: [v, idx, len] per call
    pc,            \* position in Mesh::read / main
    panicAt,       \* the call that panicked ("none" while running)
    stream,        \* what the reader has delivered: [hdr, nread, cnt, recs, eof]
    facet_count,   \* read_binary's facet_count
    facets,        \* read_binary's Vec<StlFacet>
    cur,           \* the StlFacet::read in progress or last made
    mesh,          \* the Mesh returned by Mesh::read / held by main
    flags,         \* main's write_to_* options that are set
    free,          \* the free arguments main's iterator has consumed
    commands,      \* main's Vec<Box<MeshOperation>>
    it,            \* the engine loop's position in commands
    changed_mesh,  \* main's changed_mesh
    outs           \* the writers main has invoked, in order

vars == <<vm, log, pc, panicAt, stream, facet_count, facets, cur, mesh,
          flags, free, commands, it, changed_mesh, outs>>

mapVars == <<vm, log>>
decodeVars == <<stream, facet_count, facets, cur>>
mainVars == <<flags, free, commands, it, changed_mesh, outs>>

(***************************************************************************)
(* Bounds of the model.                                                    *)
(***************************************************************************)
MaxAdds == 4
MaxFacets == 2
MaxCmds == 2

(***************************************************************************)
(* f32 values, kept as their IEEE-754 fields: sign, biased exponent and    *)
(* 23-bit mantissa.                                                        *)
(***************************************************************************)
F32(s, e, m) == [s |-> s, e |-> e, m |-> m]

PosZero == F32(0, 0, 0)
NegZero == F32(1, 0, 0)
One == F32(0, 127, 0)
NAN == F32(0, 255, 4194304)

IsNaN(f) == f.e = 255 /\ f.m # 0
IsZero(f) == f.e = 0 /\ f.m = 0

\* f32's == : NaN equals nothing, the two zeros are equal.
F32Eq(a, b) ==
    /\ ~IsNaN(a)
    /\ ~IsNaN(b)
    /\ ((IsZero(a) /\ IsZero(b)) \/ a = b)

\* transmute::<f32, u32>, as the high and the low 16-bit halves of the word.
Transmute(f) == <<f.s * 32768 + f.e * 128 + (f.m \div 65536), f.m % 65536>>

Vector3D(x, y, z) == [x |-> x, y |-> y, z |-> z]

\* #[derive(PartialEq)] on Vector3D: componentwise f32 ==.
Vector3D_eq(a, b) == F32Eq(a.x, b.x) /\ F32Eq(a.y, b.y) /\ F32Eq(a.z, b.z)

\* impl Hash for Vector3D: the three transmuted words, fed to the hasher in
\* order. The hasher is taken to be collision-free on these word sequences.
Vector3D_hash(v) == <<Transmute(v.x), Transmute(v.y), Transmute(v.z)>>

\* The sentinel Vector3D::read returns when a float read fails.
NanVector == Vector3D(NAN, NAN, NAN)

\* The vertex values the inputs are drawn from.
VZero == Vector3D(PosZero, PosZero, PosZero)
VNegZero == Vector3D(NegZero, PosZero, PosZero)
VX == Vector3D(One, PosZero, PosZero)
VNan == Vector3D(NAN, PosZero, PosZero)
Vecs == {VZero, VNegZero, VX, VNan}

(***************************************************************************)
(* VertexMap                                                               *)
(***************************************************************************)
\* HashMap's key match: the stored hash is compared first, then the key by ==.
KeyMatch(k, v) == Vector3D_hash(k) = Vector3D_hash(v) /\ Vector3D_eq(k, v)

HashMap_contains_key(m, v) == \E e \in m : KeyMatch(e.k, v)

\* HashMap::get, as an Option: [ok, val].
HashMap_get(m, v) ==
    IF HashMap_contains_key(m, v)
    THEN [ok |-> TRUE, val |-> (CHOOSE e \in m : KeyMatch(e.k, v)).i]
    ELSE [ok |-> FALSE, val |-> 0]

\* HashMap::insert: replaces the value of a matching key, else adds an entry.
HashMap_insert(m, v, idx) ==
    {e \in m : ~KeyMatch(e.k, v)} \cup {[k |-> v, i |-> idx]}

VertexMap_new == {}

VertexMap_len(m) == Cardinality(m)

\* A get that counts indices from 1.
VertexMap_get_one_based(m, v) ==
    [ok |-> HashMap_get(m, v).ok, val |-> HashMap_get(m, v).val + 1]

\* VertexMap::get: [ok, val]; ok = FALSE is the panic of unwrap on None.
VertexMap_get(m, v) == HashMap_get(m, v)

\* An add without the contains_key test.
VertexMap_add_always_insert(m, vertex) ==
    [map |-> m \cup {[k |-> vertex, i |-> Cardinality(m)]}, idx |-> Cardinality(m)]

\* VertexMap::add: [map, idx], the map afterwards and the index returned.
VertexMap_add(m, vertex) ==
    IF HashMap_contains_key(m, vertex)
    THEN [map |-> m, idx |-> HashMap_get(m, vertex).val]
    ELSE [map |-> HashMap_insert(m, vertex, VertexMap_len(m)),
          idx |-> VertexMap_len(m)]

\* VertexMap::vector: [ok, val]. The first loop sizes v with the keys in
\* iteration order, the second writes each key at its index; an index that is
\* out of bounds panics (ok = FALSE).
VertexMap_vector(m) ==
    LET n == VertexMap_len(m)
        placeholder == CHOOSE f \in [1..n -> {e.k : e \in m}] : TRUE
    IN  IF \E e \in m : e.i >= n
        THEN [ok |-> FALSE, val |-> <<>>]
        ELSE [ok |-> TRUE,
              val |-> [j \in 1..n |->
                         IF \E e \in m : e.i = j - 1
                         THEN (CHOOSE e \in m : e.i = j - 1).k
                         ELSE placeholder[j]]]

(***************************************************************************)
(* SpecMap: a fresh VertexMap and any sequence of add calls.               *)
(***************************************************************************)
EmptyMesh == [vertices |-> <<>>, facets |-> <<>>]
NoStream == [hdr |-> <<>>, nread |-> 0, path |-> "none", cnt |-> 0,
             recs |-> <<>>, eof |-> FALSE]
NoFacet == [n |-> NanVector, v1 |-> NanVector, v2 |-> NanVector,
            v3 |-> NanVector, abc |-> [ok |-> FALSE, val |-> 0]]

Idle ==
    /\ panicAt = "none"
    /\ stream = NoStream
    /\ facet_count = 0
    /\ facets = <<>>
    /\ cur = NoFacet
    /\ mesh = EmptyMesh
    /\ flags = {}
    /\ free = <<>>
    /\ commands = <<>>
    /\ it = 0
    /\ changed_mesh = EmptyMesh
    /\ outs = <<>>

InitMap ==
    /\ vm = VertexMap_new
    /\ log = <<>>
    /\ pc = "map"
    /\ Idle

AddCall ==
    /\ pc = "map"
    /\ Len(log) < MaxAdds
    /\ \E v \in Vecs :
         LET r == VertexMap_add(vm, v)
         IN  /\ vm' = r.map
             /\ log' = Append(log, [v |-> v, idx |-> r.idx,
                                    len |-> VertexMap_len(r.map)])
    /\ UNCHANGED <<pc, panicAt, decodeVars, mesh, mainVars>>

NextMap == AddCall

SpecMap == InitMap /\ [][NextMap]_vars

(***************************************************************************)
(* The reader: little-endian primitive reads over the fields of a stream.  *)
(* A stream is the sequence of its fields in read order; a field that is   *)
(* cut short by the end of the stream is absent from it.                   *)
(***************************************************************************)
HeaderLen == 80

\* buf = [0; 80] with the bytes read copied to its front.
Pad(s, n) == [j \in 1..n |-> IF j <= Len(s) THEN s[j] ELSE 0]

\* Reader::read(buf): [ok, nread, buf]. It reads up to n bytes and returns
\* how many; Err(EndOfFile) only when nothing is left. buf is taken to
\* receive the bytes read, as the header test that follows requires.
Reader_read(file, n) ==
    LET nread == IF Len(file) < n THEN Len(file) ELSE n
    IN  [ok |-> Len(file) > 0, nread |-> nread,
         buf |-> Pad(SubSeq(file, 1, nread), n)]

\* read_le_f32 on the remaining fields s: [ok, val, rest]. A failed read
\* leaves the stream at its end.
read_le_f32(s) ==
    IF Len(s) > 0
    THEN [ok |-> TRUE, val |-> Head(s), rest |-> Tail(s)]
    ELSE [ok |-> FALSE, val |-> NAN, rest |-> <<>>]

\* read_le_u16 on the remaining fields s: [ok, val].
read_le_u16(s) ==
    IF Len(s) > 0
    THEN [ok |-> TRUE, val |-> Head(s)]
    ELSE [ok |-> FALSE, val |-> 0]

\* Vector3D::read: [val, rest].
Vector3D_read(s) ==
    LET xr == read_le_f32(s)
        yr == read_le_f32(xr.rest)
        zr == read_le_f32(yr.rest)
    IN  [val |-> IF xr.ok /\ yr.ok /\ zr.ok
                 THEN Vector3D(xr.val, yr.val, zr.val)
                 ELSE NanVector,
         rest |-> zr.rest]

\* A read whose attribute field defaults to 0 instead of unwrapping.
StlFacet_read_guarded(s) ==
    LET n == Vector3D_read(s)
        v1 == Vector3D_read(n.rest)
        v2 == Vector3D_read(v1.rest)
        v3 == Vector3D_read(v2.rest)
    IN  [n |-> n.val, v1 |-> v1.val, v2 |-> v2.val, v3 |-> v3.val,
         abc |-> [ok |-> TRUE, val |-> read_le_u16(v3.rest).val]]

\* StlFacet::read: the facet, with abc the Result that read() unwraps.
StlFacet_read(s) ==
    LET n == Vector3D_read(s)
        v1 == Vector3D_read(n.rest)
        v2 == Vector3D_read(v1.rest)
        v3 == Vector3D_read(v2.rest)
    IN  [n |-> n.val, v1 |-> v1.val, v2 |-> v2.val, v3 |-> v3.val,
         abc |-> read_le_u16(v3.rest)]

(***************************************************************************)
(* UTF-8 decoding of the header and of the ASCII body's lines.             *)
(***************************************************************************)
IsCont(c) == c >= 128 /\ c <= 191

RECURSIVE utf8_from(_, _)
utf8_from(b, i) ==
    IF i > Len(b) THEN TRUE
    ELSE LET c == b[i]
         IN  IF c < 128 THEN utf8_from(b, i + 1)
             ELSE IF c >= 194 /\ c <= 223
                  THEN /\ i + 1 <= Len(b)
                       /\ IsCont(b[i + 1])
                       /\ utf8_from(b, i + 2)
             ELSE IF c >= 224 /\ c <= 239
                  THEN /\ i + 2 <= Len(b)
                       /\ IsCont(b[i + 1])
                       /\ (c = 224 => b[i + 1] >= 160)
                       /\ (c = 237 => b[i + 1] <= 159)
                       /\ IsCont(b[i + 2])
                       /\ utf8_from(b, i + 3)
             ELSE IF c >= 240 /\ c <= 244
                  THEN /\ i + 3 <= Len(b)
                       /\ IsCont(b[i + 1])
                       /\ (c = 240 => b[i + 1] >= 144)
                       /\ (c = 244 => b[i + 1] <= 143)
                       /\ IsCont(b[i + 2])
                       /\ IsCont(b[i + 3])
                       /\ utf8_from(b, i + 4)
             ELSE FALSE

\* String::from_utf8(bytes).is_ok()
from_utf8_ok(b) == utf8_from(b, 1)

\* str::starts_with
starts_with(s, p) == Len(s) >= Len(p) /\ SubSeq(s, 1, Len(p)) = p

\* "solid "
Solid == <<115, 111, 108, 105, 100, 32>>

(***************************************************************************)
(* Mesh                                                                    *)
(***************************************************************************)
Mesh_new == [vertices |-> <<>>, facets |-> <<>>]

Facet(a, b, c) == [v1 |-> a, v2 |-> b, v3 |-> c]

\* Mesh::indexed_vertices: [ok, val]; ok = FALSE when a VertexMap::get panics.
Mesh_indexed_vertices(fv, m) ==
    IF \E j \in 1..Len(fv) :
           \/ ~VertexMap_get(m, fv[j].v1).ok
           \/ ~VertexMap_get(m, fv[j].v2).ok
           \/ ~VertexMap_get(m, fv[j].v3).ok
    THEN [ok |-> FALSE, val |-> <<>>]
    ELSE [ok |-> TRUE,
          val |-> [j \in 1..Len(fv) |->
                     Facet(VertexMap_get(m, fv[j].v1).val,
                           VertexMap_get(m, fv[j].v2).val,
                           VertexMap_get(m, fv[j].v3).val)]]

\* Mesh::new_from_stl: [ok, at, mesh]; at names the call that panicked.
Mesh_new_from_stl(fv, m) ==
    LET vs == VertexMap_vector(m)
        fs == Mesh_indexed_vertices(fv, m)
    IN  IF ~vs.ok THEN [ok |-> FALSE, at |-> "vector", mesh |-> Mesh_new]
        ELSE IF ~fs.ok THEN [ok |-> FALSE, at |-> "get", mesh |-> Mesh_new]
        ELSE [ok |-> TRUE, at |-> "none",
              mesh |-> [vertices |-> vs.val, facets |-> fs.val]]

(***************************************************************************)
(* The inputs of SpecDecode.                                               *)
(***************************************************************************)
Fill(s, n, b) == [j \in 1..n |-> IF j <= Len(s) THEN s[j] ELSE b]

\* "sol", "notsolid", "solid x", and bytes that are no UTF-8.
HeaderFiles ==
    { <<>>,
      <<115, 111, 108>>,
      <<115, 111, 108, 105, 100, 32, 120>>,
      <<195, 169>>,
      <<195>>,
      <<255>>,
      Fill(<<110, 111, 116, 115, 111, 108, 105, 100>>, HeaderLen, 32),
      Fill(<<115, 111, 108, 105, 100, 32, 120>>, HeaderLen, 32),
      Fill(<<255>>, HeaderLen, 32) }

\* The lines that follow an ASCII header: "facet", and a line that is no UTF-8.
AsciiBodies ==
    { <<>>,
      << <<102, 97, 99, 101, 116, 10>> >>,
      << <<102, 97, 99, 101, 116, 10>>, <<255, 10>> >> }

Flat(v) == <<v.x, v.y, v.z>>

\* The 13 fields of one facet record.
Record(n, v1, v2, v3, abc) ==
    Flat(n) \o Flat(v1) \o Flat(v2) \o Flat(v3) \o <<abc>>

RecordFields == 13

VNormal == Vector3D(PosZero, PosZero, One)

CompleteRecords ==
    {Record(VNormal, a, b, c, 0) : a \in Vecs, b \in Vecs, c \in Vecs}

\* A record cut short by the end of the stream: k whole fields of it remain.
TruncatedRecords ==
    {SubSeq(Record(VNormal, VX, VZero, VNegZero, 0), 1, k) :
        k \in 0..(RecordFields - 1)}

(***************************************************************************)
(* SpecDecode: Mesh::read over an arbitrary stream.                        *)
(***************************************************************************)
InitDecode ==
    /\ vm = VertexMap_new
    /\ log = <<>>
    /\ pc = "read"
    /\ Idle

\* Mesh::read up to its dispatch on the header.
Sniff ==
    /\ pc = "read"
    /\ \E file \in HeaderFiles :
         LET r == Reader_read(file, HeaderLen)
             s == [stream EXCEPT !.hdr = r.buf, !.nread = r.nread,
                                 !.eof = Len(file) < HeaderLen]
         IN  IF ~r.ok
             THEN /\ pc' = "done"
                  /\ mesh' = [vertices |-> <<>>, facets |-> <<>>]
                  /\ panicAt' = panicAt
                  /\ stream' = [s EXCEPT !.hdr = <<>>]
             ELSE IF ~from_utf8_ok(r.buf)
             THEN /\ pc' = "panic"
                  /\ panicAt' = "from_utf8"
                  /\ stream' = s
                  /\ mesh' = mesh
             ELSE IF starts_with(r.buf, Solid)
             THEN /\ pc' = "read_ascii"
                  /\ stream' = [s EXCEPT !.path = "ascii"]
                  /\ UNCHANGED <<panicAt, mesh>>
             ELSE /\ pc' = "read_binary"
                  /\ stream' = [s EXCEPT !.path = "binary"]
                  /\ UNCHANGED <<panicAt, mesh>>
    /\ UNCHANGED <<mapVars, facet_count, facets, cur, mainVars>>

\* Mesh::read_ascii
ReadAscii ==
    /\ pc = "read_ascii"
    /\ \E body \in (IF stream.eof THEN {<<>>} ELSE AsciiBodies) :
         /\ stream' = [stream EXCEPT !.recs = body, !.eof = TRUE]
         /\ IF \E j \in 1..Len(body) : ~from_utf8_ok(body[j])
            THEN pc' = "panic" /\ panicAt' = "line" /\ mesh' = mesh
            ELSE pc' = "done" /\ panicAt' = panicAt /\ mesh' = Mesh_new
    /\ UNCHANGED <<mapVars, facet_count, facets, cur, mainVars>>

\* Mesh::read_binary up to its loop: the facet count and the collections.
\* cnt = -1 records a failed read_le_u32.
ReadCount ==
    /\ pc = "read_binary"
    /\ \E c \in (IF stream.eof THEN {-1} ELSE -1..MaxFacets) :
         /\ stream' = [stream EXCEPT !.cnt = c, !.eof = stream.eof \/ c = -1]
         /\ facet_count' = IF c = -1 THEN 0 ELSE c
    /\ facets' = <<>>
    /\ vm' = VertexMap_new
    /\ pc' = "loop"
    /\ UNCHANGED <<log, panicAt, cur, mesh, mainVars>>

\* One iteration of read_binary's loop.
ReadFacet ==
    /\ pc = "loop"
    /\ Len(facets) < facet_count
    /\ \E rec \in (IF stream.eof THEN {<<>>}
                   ELSE CompleteRecords \cup TruncatedRecords) :
         LET f == StlFacet_read(rec)
             a1 == VertexMap_add(vm, f.v1)
             a2 == VertexMap_add(a1.map, f.v2)
             a3 == VertexMap_add(a2.map, f.v3)
         IN  /\ stream' = [stream EXCEPT !.recs = Append(@, rec),
                                         !.eof = @ \/ Len(rec) < RecordFields]
             /\ cur' = f
             /\ IF ~f.abc.ok
                THEN /\ pc' = "panic"
                     /\ panicAt' = "read_le_u16"
                     /\ UNCHANGED <<vm, facets>>
                ELSE /\ vm' = a3.map
                     /\ facets' = Append(facets,
                            [n |-> f.n, v1 |-> f.v1, v2 |-> f.v2, v3 |-> f.v3,
                             abc |-> f.abc.val])
                     /\ UNCHANGED <<pc, panicAt>>
    /\ UNCHANGED <<log, facet_count, mesh, mainVars>>

\* The end of read_binary: Mesh::new_from_stl.
Build ==
    /\ pc = "loop"
    /\ Len(facets) = facet_count
    /\ LET r == Mesh_new_from_stl(facets, vm)
       IN  IF r.ok
           THEN pc' = "done" /\ mesh' = r.mesh /\ panicAt' = panicAt
           ELSE pc' = "panic" /\ panicAt' = r.at /\ mesh' = mesh
    /\ UNCHANGED <<mapVars, decodeVars, mainVars>>

NextDecode ==
    \/ Sniff
    \/ ReadAscii
    \/ ReadCount
    \/ ReadFacet
    \/ Build

SpecDecode == InitDecode /\ [][NextDecode]_vars

(***************************************************************************)
(* Claims about VertexMap (SpecMap).                                       *)
(***************************************************************************)
LogValues == {log[j].v : j \in 1..Len(log)}
LogIndices == {log[j].idx : j \in 1..Len(log)}

\* C1: add(v) for a v that was already added returns the index the first
\* add(v) returned and leaves len() unchanged, for every vertex value v.
C1_AddIdempotent ==
    \A j \in 1..Len(log) : \A i \in 1..(j - 1) :
        log[i].v = log[j].v =>
            /\ log[j].idx = log[i].idx
            /\ log[j].len = log[j - 1].len

\* C2: with k distinct values added, the indices returned are exactly
\* 0..k-1, the j-th distinct value gets index j-1, and every value keeps
\* the one index it was given.
C2_IndexContiguity ==
    /\ LogIndices = 0..(Cardinality(LogValues) - 1)
    /\ \A j \in 1..Len(log) :
           (\A i \in 1..(j - 1) : log[i].v # log[j].v) =>
               log[j].idx = Cardinality({log[i].v : i \in 1..(j - 1)})
    /\ \A e1 \in vm : \A e2 \in vm : e1.k = e2.k => e1.i = e2.i

(***************************************************************************)
(* Claims about Mesh::read (SpecDecode).                                   *)
(***************************************************************************)
Returned == pc = "done"
Panicked == pc = "panic"
IsComplete(rec) == Len(rec) = RecordFields

\* The vertex values of a record of the stream, from its raw fields.
RecV1(rec) == Vector3D(rec[4], rec[5], rec[6])
RecV2(rec) == Vector3D(rec[7], rec[8], rec[9])
RecV3(rec) == Vector3D(rec[10], rec[11], rec[12])

\* The vertex occurrences of the records in file order, v1 then v2 then v3.
RECURSIVE Occurrences(_)
Occurrences(recs) ==
    IF recs = <<>> THEN <<>>
    ELSE <<RecV1(Head(recs)), RecV2(Head(recs)), RecV3(Head(recs))>>
             \o Occurrences(Tail(recs))

\* The distinct values of a sequence in order of first appearance.
RECURSIVE FirstSeen(_, _)
FirstSeen(occ, seen) ==
    IF occ = <<>> THEN seen
    ELSE IF \E j \in 1..Len(seen) : seen[j] = Head(occ)
         THEN FirstSeen(Tail(occ), seen)
         ELSE FirstSeen(Tail(occ), Append(seen, Head(occ)))

\* The 0-based position of v in the sequence vs.
PositionIn(vs, v) == (CHOOSE j \in 1..Len(vs) : vs[j] = v) - 1

\* C3: in every mesh the decoder returns, each index of every facet is
\* less than the number of vertices.
C3_ReferentialIntegrity ==
    Returned =>
        \A j \in 1..Len(mesh.facets) :
            /\ mesh.facets[j].v1 \in 0..(Len(mesh.vertices) - 1)
            /\ mesh.facets[j].v2 \in 0..(Len(mesh.vertices) - 1)
            /\ mesh.facets[j].v3 \in 0..(Len(mesh.vertices) - 1)

C3_Witness ==
    /\ Returned
    /\ Len(mesh.facets) = 2
    /\ Len(mesh.vertices) = 3
    /\ mesh.facets[2].v3 = 2

\* C4: a binary STL with declared count N followed by N complete facet
\* records, whatever their float bit patterns, decodes normally to a mesh of
\* exactly N facets.
C4_RoundTripCount ==
    (/\ stream.path = "binary"
     /\ pc \notin {"read_binary", "loop"}
     /\ stream.cnt >= 0
     /\ Len(stream.recs) = stream.cnt
     /\ \A j \in 1..Len(stream.recs) : IsComplete(stream.recs[j]))
    => (Returned /\ Len(mesh.facets) = stream.cnt)

\* C5: the decoded mesh's vertices are the distinct vertex values of the
\* facet records in order of first appearance, facet i holds the positions of
\* record i's v1, v2, v3 in that list, and every vertex is used by a facet.
C5_SoupReduction ==
    (Returned /\ stream.path = "binary") =>
        LET expected == FirstSeen(Occurrences(stream.recs), <<>>)
        IN  /\ mesh.vertices = expected
            /\ Len(mesh.facets) = Len(stream.recs)
            /\ \A j \in 1..Len(stream.recs) :
                   mesh.facets[j] =
                       Facet(PositionIn(expected, RecV1(stream.recs[j])),
                             PositionIn(expected, RecV2(stream.recs[j])),
                             PositionIn(expected, RecV3(stream.recs[j])))
            /\ \A i \in 0..(Len(mesh.vertices) - 1) :
                   \E j \in 1..Len(mesh.facets) :
                       i \in {mesh.facets[j].v1, mesh.facets[j].v2,
                              mesh.facets[j].v3}

\* Two facets that share the vertex (1,0,0); (0,0,0) and (-0,0,0) are stored
\* as two vertices.
C5_Witness ==
    /\ Returned
    /\ Len(mesh.facets) = 2
    /\ mesh.vertices = <<VX, VZero, VNegZero>>
    /\ mesh.facets[1] = Facet(0, 1, 2)
    /\ mesh.facets[2] = Facet(2, 0, 0)

\* C6: when fewer than 80 header bytes are available, or the facet count
\* cannot be read, Mesh::read returns normally with an empty mesh.
C6_EarlyEndIsEmptyMesh ==
    (/\ pc \notin {"read", "read_ascii", "read_binary", "loop"}
     /\ (stream.nread < HeaderLen \/ stream.cnt = -1))
    => (Returned /\ mesh = EmptyMesh)

\* C7: every 80-byte header that does not begin with "solid " goes on to
\* binary parsing without a crash at the sniff step; a header that begins with
\* "solid " takes the ASCII path, which returns an empty mesh.
C7_HeaderDispatch ==
    (pc # "read" /\ stream.nread = HeaderLen) =>
        /\ ~starts_with(stream.hdr, Solid) =>
               (stream.path = "binary" /\ panicAt # "from_utf8")
        /\ starts_with(stream.hdr, Solid) =>
               (/\ stream.path = "ascii"
                /\ ~Panicked
                /\ Returned => mesh = EmptyMesh)

\* C10: when the stream ends before N complete facet records, the decode
\* aborts at the attribute read and returns no mesh; a failed float read
\* yields the vector (NaN, NaN, NaN) and decoding goes on to the attribute
\* read.
C10_TruncationAbortsAtAttribute ==
    /\ (Returned /\ stream.path = "binary" /\ stream.cnt >= 0) =>
           /\ Len(stream.recs) = stream.cnt
           /\ \A j \in 1..Len(stream.recs) : IsComplete(stream.recs[j])
    /\ \A j \in 1..Len(stream.recs) :
           (stream.path = "binary" /\ ~IsComplete(stream.recs[j])) =>
               LET rec == stream.recs[j]
                   k == Len(rec)
               IN  /\ j = Len(stream.recs)
                   /\ Panicked
                   /\ panicAt = "read_le_u16"
                   /\ mesh = EmptyMesh
                   /\ ~cur.abc.ok
                   /\ cur.n = IF k >= 3 THEN Vector3D(rec[1], rec[2], rec[3])
                                        ELSE NanVector
                   /\ cur.v1 = IF k >= 6 THEN RecV1(rec) ELSE NanVector
                   /\ cur.v2 = IF k >= 9 THEN RecV2(rec) ELSE NanVector
                   /\ cur.v3 = IF k >= 12 THEN RecV3(rec) ELSE NanVector

\* The stream ends inside v2 of the second record.
C10_Witness ==
    /\ Panicked
    /\ panicAt = "read_le_u16"
    /\ Len(stream.recs) = 2
    /\ Len(facets) = 1
    /\ Len(stream.recs[2]) = 7
    /\ cur.v1 = VX
    /\ cur.v2 = NanVector

(***************************************************************************)
(* main: the command line, the transforms and the writers.                 *)
(***************************************************************************)
\* str::split(','): the tokens of s, a sequence of characters.
RECURSIVE split_from(_, _, _)
split_from(s, i, tok) ==
    IF i > Len(s) THEN <<tok>>
    ELSE IF s[i] = "," THEN <<tok>> \o split_from(s, i + 1, <<>>)
    ELSE split_from(s, i + 1, Append(tok, s[i]))

split(s) == split_from(s, 1, <<>>)

\* str::parse::<f32>().ok() on the tokens the arguments below are made of:
\* "0", "1" and "-0" are numbers, "x" and the empty token are not.
parse_f32(tok) ==
    IF tok = <<"0">> THEN [ok |-> TRUE, val |-> PosZero]
    ELSE IF tok = <<"1">> THEN [ok |-> TRUE, val |-> One]
    ELSE IF tok = <<"-", "0">> THEN [ok |-> TRUE, val |-> NegZero]
    ELSE [ok |-> FALSE, val |-> NAN]

\* Iterator::filter_map(f).collect() over a sequence of tokens.
RECURSIVE filter_map_parse(_)
filter_map_parse(toks) ==
    IF toks = <<>> THEN <<>>
    ELSE (IF parse_f32(Head(toks)).ok THEN <<parse_f32(Head(toks)).val>>
          ELSE <<>>) \o filter_map_parse(Tail(toks))

\* arg_to_vector: [ok, val]; ok = FALSE is its panic.
arg_to_vector(arg) ==
    LET parts == filter_map_parse(split(arg))
    IN  IF Len(parts) # 3
        THEN [ok |-> FALSE, val |-> NanVector]
        ELSE [ok |-> TRUE, val |-> Vector3D(parts[1], parts[2], parts[3])]

\* Mesh::new_from_parts
Mesh_new_from_parts(v3s, fs) == [vertices |-> v3s, facets |-> fs]

\* Rotate::rotate with a Vec3 as the rotation: a vector holds no rotation,
\* and its argument comes back as it is.
Vec3_rotate(rot, v3) == v3

\* Rot3::absolute_rotate is f32 matrix arithmetic; of its result only this
\* is modelled: each vertex becomes some f32 vector.
RotateImages(v) == {v, VX, NanVector}

\* RotateOperation::apply: the meshes it can return.
RotateOperation_apply(v, m) ==
    {Mesh_new_from_parts(v3s, m.facets) :
        v3s \in {q \in [1..Len(m.vertices) -> Vecs \cup {NanVector}] :
                    \A j \in 1..Len(m.vertices) :
                        q[j] \in RotateImages(m.vertices[j])}}

\* ScaleOperation::apply
ScaleOperation_apply(v, m) ==
    {Mesh_new_from_parts([j \in 1..Len(m.vertices) |->
                             Vec3_rotate(v, m.vertices[j])], m.facets)}

\* An apply whose closure yields rot instead of rot.rotate(&v3).
TranslateOperation_apply_rot(v, m) ==
    {Mesh_new_from_parts([j \in 1..Len(m.vertices) |-> v], m.facets)}

\* TranslateOperation::apply
TranslateOperation_apply(v, m) ==
    {Mesh_new_from_parts([j \in 1..Len(m.vertices) |->
                             Vec3_rotate(v, m.vertices[j])], m.facets)}

\* MeshOperation::apply, dispatched on the command's kind.
MeshOperation_apply(c, m) ==
    IF c.op = "rotate" THEN RotateOperation_apply(c.v, m)
    ELSE IF c.op = "scale" THEN ScaleOperation_apply(c.v, m)
    ELSE TranslateOperation_apply(c.v, m)

CommandNames == {"rotate", "scale", "translate"}

\* The command names and vector arguments the free arguments are drawn from:
\* "0,0,0", "1,0,0", "1,0", "1,x,0,0" and "x".
NameArgs == CommandNames \cup {"mirror"}
VectorArgs ==
    { <<"0", ",", "0", ",", "0">>,
      <<"1", ",", "0", ",", "0">>,
      <<"1", ",", "0">>,
      <<"1", ",", "x", ",", "0", ",", "0">>,
      <<"x">> }

Writers == <<"povray", "amf", "stl", "console">>
FlagSets == {{}, {"stl"}, {"povray", "amf", "stl", "console"}}

\* The facets of the files main is run on, and the maps their vertices give.
StlFacet(n, v1, v2, v3, abc) ==
    [n |-> n, v1 |-> v1, v2 |-> v2, v3 |-> v3, abc |-> abc]

InputFiles ==
    { <<StlFacet(VNormal, VZero, VX, VNegZero, 0)>>,
      <<StlFacet(VNormal, VZero, VX, VNegZero, 0),
        StlFacet(VNormal, VX, VZero, VZero, 0)>> }

RECURSIVE VertexMap_of(_)
VertexMap_of(fv) ==
    IF fv = <<>> THEN VertexMap_new
    ELSE LET f == fv[Len(fv)]
             m0 == VertexMap_of(SubSeq(fv, 1, Len(fv) - 1))
             a1 == VertexMap_add(m0, f.v1)
             a2 == VertexMap_add(a1.map, f.v2)
         IN  VertexMap_add(a2.map, f.v3).map

\* StlFile::read(..).as_mesh()
StlFile_as_mesh(fv) == Mesh_new_from_stl(fv, VertexMap_of(fv)).mesh

RECURSIVE SelectSeq2(_, _)
SelectSeq2(ws, fl) ==
    IF ws = <<>> THEN <<>>
    ELSE (IF Head(ws) \in fl THEN <<Head(ws)>> ELSE <<>>)
             \o SelectSeq2(Tail(ws), fl)

InitMain ==
    /\ vm = VertexMap_new
    /\ log = <<>>
    /\ pc = "main"
    /\ Idle

\* main up to the command loop: the options and the input file.
StartMain ==
    /\ pc = "main"
    /\ \E how \in {"help", "no input", "read error", "ok"} :
       \E fl \in FlagSets :
       \E fv \in InputFiles :
         IF how = "ok"
         THEN pc' = "parse" /\ flags' = fl /\ mesh' = StlFile_as_mesh(fv)
         ELSE /\ pc' = "exit"
              /\ flags' = (IF how = "help" THEN {} ELSE fl)
              /\ mesh' = mesh
    /\ UNCHANGED <<mapVars, panicAt, decodeVars, free, commands, it,
                   changed_mesh, outs>>

\* One turn of the command loop; its break is the start of the engine.
ParseCommand ==
    /\ pc = "parse"
    /\ \/ /\ pc' = "engine"
          /\ changed_mesh' = mesh
          /\ UNCHANGED <<panicAt, free, commands>>
       \/ /\ Len(commands) < MaxCmds
          /\ \E name \in NameArgs :
               /\ free' = Append(free, [name |-> name, has |-> FALSE,
                                        arg |-> <<>>])
               /\ pc' = "exit"
               /\ UNCHANGED <<panicAt, commands, changed_mesh>>
       \/ /\ Len(commands) < MaxCmds
          /\ \E name \in NameArgs : \E arg \in VectorArgs :
               LET vector == arg_to_vector(arg)
               IN  /\ free' = Append(free, [name |-> name, has |-> TRUE,
                                            arg |-> arg])
                   /\ changed_mesh' = changed_mesh
                   /\ IF ~vector.ok
                      THEN /\ pc' = "panic"
                           /\ panicAt' = "arg_to_vector"
                           /\ commands' = commands
                      ELSE IF name \notin CommandNames
                      THEN /\ pc' = "exit"
                           /\ UNCHANGED <<panicAt, commands>>
                      ELSE /\ pc' = "parse"
                           /\ panicAt' = panicAt
                           /\ commands' = Append(commands,
                                  [op |-> name, v |-> vector.val])
    /\ UNCHANGED <<mapVars, decodeVars, mesh, flags, it, outs>>

\* One turn of the engine loop; its break leads to the writers.
EngineStep ==
    /\ pc = "engine"
    /\ IF it < Len(commands)
       THEN /\ changed_mesh' \in
                   MeshOperation_apply(commands[it + 1], changed_mesh)
            /\ it' = it + 1
            /\ pc' = pc
       ELSE /\ pc' = "write"
            /\ UNCHANGED <<it, changed_mesh>>
    /\ UNCHANGED <<mapVars, panicAt, decodeVars, mesh, flags, free,
                   commands, outs>>

\* The writers the options select, in the order main calls them.
Write ==
    /\ pc = "write"
    /\ outs' = SelectSeq2(Writers, flags)
    /\ pc' = "exit"
    /\ UNCHANGED <<mapVars, panicAt, decodeVars, mesh, flags, free,
                   commands, it, changed_mesh>>

NextMain ==
    \/ StartMain
    \/ ParseCommand
    \/ EngineStep
    \/ Write

SpecMain == InitMain /\ [][NextMain]_vars

(***************************************************************************)
(* Claims about main (SpecMain).                                           *)
(***************************************************************************)
MeshIntegrity(m) ==
    \A j \in 1..Len(m.facets) :
        /\ m.facets[j].v1 \in 0..(Len(m.vertices) - 1)
        /\ m.facets[j].v2 \in 0..(Len(m.vertices) - 1)
        /\ m.facets[j].v3 \in 0..(Len(m.vertices) - 1)

Applying == pc = "engine" /\ it < Len(commands)

\* C8: every step of the command list returns a mesh with the facet list
\* and the vertex count of its input, so the facets' indices stay in range,
\* and Translate(0,0,0) leaves every vertex position unchanged.
C8_TransformsPreserveStructure ==
    /\ [](pc \in {"engine", "write", "exit"} /\ it > 0
             => MeshIntegrity(changed_mesh))
    /\ [][Applying =>
            /\ changed_mesh'.facets = changed_mesh.facets
            /\ Len(changed_mesh'.vertices) = Len(changed_mesh.vertices)
            /\ (commands[it + 1] = [op |-> "translate", v |-> VZero]
                    => changed_mesh'.vertices = changed_mesh.vertices)]_vars

\* A rotation, then Translate(0,0,0), over a mesh of two facets.
C8_Witness ==
    /\ pc = "exit"
    /\ it = 2
    /\ commands[1].op = "rotate"
    /\ commands[2] = [op |-> "translate", v |-> VZero]
    /\ changed_mesh.vertices = <<VZero, NanVector, VNegZero>>
    /\ Len(changed_mesh.facets) = 2
    /\ outs = <<"stl">>

\* A vector literal is three comma-separated numeric tokens.
IsVectorLiteral(arg) ==
    /\ Len(split(arg)) = 3
    /\ \A j \in 1..3 : parse_f32(split(arg)[j]).ok

ConfigError ==
    \E j \in 1..Len(free) :
        \/ ~free[j].has
        \/ free[j].name \notin CommandNames
        \/ free[j].has /\ ~IsVectorLiteral(free[j].arg)

\* C9: with a vector argument that is not exactly three numeric tokens, an
\* unknown transform name, or a name without a vector, the run ends without
\* applying an operation and without invoking a writer.
C9_ConfigErrorsAbort ==
    ConfigError => (it = 0 /\ outs = <<>>)

====
